---- MODULE Spec2Model ----
(***************************************************************************)
(* A model of the AP news collector: the task entry point (tasks.py) and   *)
(* the collector engine (collectors.py): search, category filtering and    *)
(* the paginated, fault-budgeted, time-bounded collection loop.            *)
(*                                                                         *)
(* Strings the code inspects character by character (the categories input, *)
(* checkbox labels, the pagination indicator) are sequences of one-        *)
(* character strings.  Dates are abstracted to their month index; the      *)
(* empty date string is the empty sequence.                                *)
(*                                                                         *)
(* Spec is the whole pipeline.  SpecFilter, SpecNews and SpecActions run   *)
(* __filter_news, News.__init__ and the resilient steps of the             *)
(* orchestrator on their own, over all their inputs; SpecLive is           *)
(* __get_news with fairness of the program and of the clock.               *)
(***************************************************************************)
EXTENDS Integers, Sequences, FiniteSets, TLC

\* ------------------------------------------------------------------ bounds
\* Most result elements the browser lists on one page.
MaxItems == 3
\* Page totals the pagination indicator may show: 1..MaxSmallTotal and one
\* two-digit total.
MaxSmallTotal == 2
TwoDigitTotal == 10
\* Largest "months" value of a work item.
MaxMonthsIn == 2
\* Month index of the session start; item months range over 0..NowMonth.
NowMonth == MaxMonthsIn
\* The deadline (170 s in tasks.py) in clock ticks.  A tick is the least time
\* the extraction of one element takes; the clock stops at MaxClock, which
\* stands for every later time.
TimeoutTicks == 6
MaxClock == TimeoutTicks
\* Most next-page clicks that silently give up and leave the page displayed.
MaxClickFails == 1
\* Longest categories input and most checkbox labels of the filter-only
\* specification.
MaxCatLen == 3
MaxLabels == 2

\* ------------------------------------------------------- program constants
NEWS_ATTEMPTS == 5
ATTEMPTS == 5
FAULTS_TOLERANCE == 5

\* ------------------------------------------------------------------ strings
RECURSIVE SeqsUpTo(_, _)
\* All sequences over S of length at most n.
SeqsUpTo(S, n) ==
    IF n = 0 THEN {<<>>}
    ELSE LET shorter == SeqsUpTo(S, n - 1)
         IN  shorter \cup {Append(s, x) : s \in shorter, x \in S}

\* str.lower() on the characters of the model's alphabet.
LowerChar(c) ==
    CASE c = "A" -> "a"
      [] c = "B" -> "b"
      [] OTHER   -> c

Lower(s) == [i \in 1..Len(s) |-> LowerChar(s[i])]

RECURSIVE SplitFrom(_, _, _, _)
\* str.split(sep) for a one-element separator: cur is the piece being read.
SplitFrom(s, sep, i, cur) ==
    IF i > Len(s) THEN <<cur>>
    ELSE IF s[i] = sep THEN <<cur>> \o SplitFrom(s, sep, i + 1, <<>>)
    ELSE SplitFrom(s, sep, i + 1, Append(cur, s[i]))

Split(s, sep) == SplitFrom(s, sep, 1, <<>>)

\* The decimal digits, in code point order.
Digits == <<"0", "1", "2", "3", "4", "5", "6", "7", "8", "9">>

Ord(c) == CHOOSE i \in 1..Len(Digits) : Digits[i] = c

RECURSIVE ToStr(_)
\* The decimal numeral of a natural number, as the page displays it.
ToStr(n) ==
    IF n < 10 THEN <<Digits[n + 1]>>
    ELSE Append(ToStr(n \div 10), Digits[(n % 10) + 1])

RECURSIVE StrLessFrom(_, _, _)
StrLessFrom(a, b, i) ==
    IF i > Len(a) THEN i <= Len(b)
    ELSE IF i > Len(b) THEN FALSE
    ELSE IF a[i] = b[i] THEN StrLessFrom(a, b, i + 1)
    ELSE Ord(a[i]) < Ord(b[i])

\* Python's str < str: lexicographic by code point, a proper prefix is less.
StrLess(a, b) == StrLessFrom(a, b, 1)

\* ------------------------------------------------------------- input sets
\* A work-item variable is <<>> when absent and <<v>> when present.
Present(S) == {<<>>} \cup {<<v>> : v \in S}

CatChars == {"a", "B", ","}
LabelTexts == {<<>>, <<"A">>, <<"b">>}

\* The work items of the full pipeline: err says that reading the item
\* raises KeyError.
WorkItems ==
    [err : BOOLEAN,
     search_phrase : Present({"", "economy"}),
     categories : Present({<<>>, <<"a">>}),
     months : Present(0..MaxMonthsIn)]

\* The checkbox labels a result page of the full pipeline shows: one whose
\* text reads empty, one upper-cased.
SiteLabels == {<< <<>>, <<"A">> >>}

Totals == (1..MaxSmallTotal) \cup {TwoDigitTotal}

ItemMonths == 0..NowMonth

\* Failed timestamp lookups before one succeeds: none, one attempt short of
\* the retry limit, and the limit itself.
FailCounts == {0, NEWS_ATTEMPTS - 1, NEWS_ATTEMPTS}

\* -------------------------------------------------------------------- state
VARIABLES
    inbox,             \* the input work item, until the task has read it
    pc,                \* position of the single control flow
    self_search_phrase, self_categories, self_months, self_timeout,
                       \* APNewsCollector fields set by __init__
    clock,             \* datetime.now(), in ticks
    browserOpen,       \* a browser session has been opened
    labels,            \* texts of the category checkbox labels, document order
    page, total,       \* the result page displayed and the number of pages
    sizes,             \* sizes[p]: result elements listed on page p, once seen
    wb,                \* the workbook: "none", "open", "saved"
    rows,              \* rows appended to the worksheet, in order
    categories, found, \* __filter_news locals
    scans,             \* scans of the checkbox labels made by __filter_news
    panelOpens,        \* clicks on the category-filter heading
    checkClicks,       \* label indices __secure_click_element was called on
    remaining_faults,  \* __get_news local: the fault budget
    elems, idx,        \* the element list of the for loop and the next index
    news,              \* the News built in the current iteration
    nextClicks,        \* calls of the next-page click
    clickFails,        \* next-page clicks that gave up
    misses,            \* extracted items that were undated or past the cutoff
    exit,              \* which return of __get_news was taken
    files,             \* names of the picture files written to the output
    call,              \* the retry loop that ran last: what its attempts met
                       \* and what it did
    gaveUp             \* the steps whose resilient action used up its attempts

vars == <<inbox, pc, self_search_phrase, self_categories, self_months,
          self_timeout, clock, browserOpen, labels, page, total, sizes, wb,
          rows, categories, found, scans, panelOpens, checkClicks,
          remaining_faults, elems, idx, news, nextClicks, clickFails,
          misses, exit, files, call, gaveUp>>

collectorVars == <<self_search_phrase, self_categories, self_months, self_timeout>>
browserVars == <<browserOpen, labels, page, total, sizes>>
filterVars == <<categories, found, scans, panelOpens, checkClicks>>
loopVars == <<remaining_faults, elems, idx, news, nextClicks, clickFails,
              misses, exit>>

NoDate == <<>>
\* The empty string of a text or picture field, and the value of a field
\* that was never assigned.
Empty == <<>>
Unset == <<-1>>
\* The article listed at position i of page p; its title, its description and
\* the bytes of its image are identified with it.
Article(p, i) == <<p, i>>
\* A worksheet row: the header, or the row of the item at <<page, index>>
\* with its picture column.
Header == [kind |-> "header", item |-> <<0, 0>>, picture |-> Empty]
DataRow(item, picture) == [kind |-> "data", item |-> item, picture |-> picture]

\* No News has been built yet; no retry loop has run yet.
NoNews == [title |-> Unset, date |-> Unset, description |-> Unset,
           picture |-> Unset]
NoCall == [fn |-> "none", outs |-> <<>>, read |-> Empty, tries |-> 0,
           raised |-> FALSE, log |-> <<>>, returns |-> "None"]

\* The state before the task runs, for a given work item.
Start(wi) ==
    /\ inbox = <<wi>>
    /\ pc = "task"
    /\ self_search_phrase = "" /\ self_categories = <<>>
    /\ self_months = 0 /\ self_timeout = 0
    /\ clock = 0
    /\ browserOpen = FALSE /\ labels = <<>>
    /\ page = 0 /\ total = 0 /\ sizes = <<>>
    /\ wb = "none" /\ rows = <<>>
    /\ categories = {} /\ found = FALSE /\ scans = 0
    /\ panelOpens = 0 /\ checkClicks = <<>>
    /\ remaining_faults = 0 /\ elems = 0 /\ idx = 0
    /\ news = NoNews /\ files = {} /\ call = NoCall /\ gaveUp = {}
    /\ nextClicks = 0 /\ clickFails = 0 /\ misses = 0 /\ exit = "none"

Init == \E wi \in WorkItems : Start(wi)

\* ------------------------------------------------------------ tasks.py
\* wi.get_work_item_variable(name, default)
GetWorkItemVariable(v, default) == IF v = <<>> THEN default ELSE v[1]

\* TaskAborts without the test of line 16.
TaskAborts_NoPhraseCheck(wi) == wi.err
\* The task returns before constructing a collector.
TaskAborts(wi) ==
    \/ wi.err
    \/ GetWorkItemVariable(wi.search_phrase, "") = ""

\* NormMonths without the special case of 0.
NormMonths_AlwaysDecrement(months) == months - 1
\* APNewsCollector.__init__: the cutoff kept in self.__months.
NormMonths(months) == IF months = 0 THEN months ELSE months - 1

\* collect_news() of tasks.py: abort, or construct the collector.
TaskReturn ==
    /\ pc = "task"
    /\ TaskAborts(inbox[1])
    /\ inbox' = <<>>
    /\ pc' = IF inbox[1].err THEN "returned_keyerror" ELSE "returned_nophrase"
    /\ UNCHANGED <<gaveUp, call, files, collectorVars, clock, browserVars, wb, rows,
                   filterVars, loopVars>>

TaskConstruct ==
    /\ pc = "task"
    /\ ~TaskAborts(inbox[1])
    /\ self_search_phrase' = GetWorkItemVariable(inbox[1].search_phrase, "")
    /\ self_categories' = GetWorkItemVariable(inbox[1].categories, <<>>)
    /\ self_months' = NormMonths(GetWorkItemVariable(inbox[1].months, 0))
    /\ self_timeout' = clock + TimeoutTicks
    /\ inbox' = <<>>
    /\ pc' = "collect"
    /\ UNCHANGED <<gaveUp, call, files, clock, browserVars, wb, rows, filterVars,
                   loopVars>>

\* ------------------------------------------------- the resilient actions
\* What one attempt of a browser action meets: it succeeds, or it raises
\* ElementClickInterceptedException, NoSuchElementException or
\* StaleElementReferenceException.
ActionKinds == {"ok", "intercepted", "not_found", "stale"}

\* What the successive attempts of one resilient action meet: failures up to
\* the first success, if there is one.
ActionScripts ==
    {s \in [1..ATTEMPTS -> ActionKinds] :
        \A i \in 1..ATTEMPTS - 1 : s[i] = "ok" => s[i + 1] = "ok"}

\* The outcome of the i-th attempt; past its end a script repeats its last
\* entry.
OutcomeAt(outs, i) == IF i <= Len(outs) THEN outs[i] ELSE outs[Len(outs)]

RECURSIVE SecureLoop_ModalsOnAnyFailure(_, _, _, _)
\* SecureLoop with __check_modals called in both handlers.
SecureLoop_ModalsOnAnyFailure(outs, attempts, tries, log) ==
    IF attempts = 0
    THEN [ok |-> FALSE, tries |-> tries, raised |-> FALSE, log |-> log,
          returns |-> "None"]
    ELSE LET o == OutcomeAt(outs, tries + 1)
             tried == Append(log, "attempt")
         IN  CASE o = "ok" ->
                    [ok |-> TRUE, tries |-> tries + 1, raised |-> FALSE,
                     log |-> tried, returns |-> "None"]
               [] o \in {"intercepted", "not_found", "stale"} ->
                    SecureLoop_ModalsOnAnyFailure(
                        outs, attempts - 1, tries + 1,
                        Append(tried, "check_modals"))
               [] OTHER ->
                    [ok |-> FALSE, tries |-> tries + 1, raised |-> TRUE,
                     log |-> tried, returns |-> "None"]
RECURSIVE SecureLoop(_, _, _, _)
\* The while loop of __secure_click_element, __secure_input_text and
\* __secure_select_from_list_by_label with `attempts` attempts left after
\* `tries` attempts: an attempt that succeeds breaks; an intercepted one
\* calls __check_modals and costs an attempt; NoSuchElementException and
\* StaleElementReferenceException cost an attempt; any other exception
\* leaves the action.  The function returns None on every path.
SecureLoop(outs, attempts, tries, log) ==
    IF attempts = 0
    THEN [ok |-> FALSE, tries |-> tries, raised |-> FALSE, log |-> log,
          returns |-> "None"]
    ELSE LET o == OutcomeAt(outs, tries + 1)
             tried == Append(log, "attempt")
         IN  CASE o = "ok" ->
                    [ok |-> TRUE, tries |-> tries + 1, raised |-> FALSE,
                     log |-> tried, returns |-> "None"]
               [] o = "intercepted" ->
                    SecureLoop(outs, attempts - 1, tries + 1,
                               Append(tried, "check_modals"))
               [] o \in {"not_found", "stale"} ->
                    SecureLoop(outs, attempts - 1, tries + 1, tried)
               [] OTHER ->
                    [ok |-> FALSE, tries |-> tries + 1, raised |-> TRUE,
                     log |-> tried, returns |-> "None"]

SecureClickElement(outs) == SecureLoop(outs, ATTEMPTS, 0, <<>>)
SecureInputText(outs) == SecureLoop(outs, ATTEMPTS, 0, <<>>)
SecureSelectFromListByLabel(outs) == SecureLoop(outs, ATTEMPTS, 0, <<>>)

\* ------------------------------------------------- collect_news, the steps
\* CreateWorkbook without the header row.
CreateWorkbook_NoHeader ==
    /\ pc = "collect"
    /\ wb' = "open"
    /\ pc' = "open"
    /\ UNCHANGED <<gaveUp, call, files, inbox, collectorVars, clock,
                   browserVars, rows, filterVars, loopVars>>
\* Lines 191-199: create the workbook and append the header row.
CreateWorkbook ==
    /\ pc = "collect"
    /\ wb' = "open"
    /\ rows' = Append(rows, Header)
    /\ pc' = "open"
    /\ UNCHANGED <<gaveUp, call, files, inbox, collectorVars, clock, browserVars, filterVars, loopVars>>

OpenWebsite ==
    /\ pc = "open"
    /\ browserOpen' = TRUE
    /\ pc' = "search"
    /\ UNCHANGED <<gaveUp, call, files, inbox, collectorVars, clock, labels, page, total, sizes,
                   wb, rows, filterVars, loopVars>>

\* __search_news: the site answers with the first result page; the number of
\* pages and the category checkboxes shown are the site's.
SearchNews ==
    /\ pc = "search"
    /\ page' = 1
    /\ \E t \in Totals : total' = t
    /\ \E ls \in SiteLabels : labels' = ls
    /\ pc' = "filter"
    /\ UNCHANGED <<gaveUp, call, files, inbox, collectorVars, clock, browserOpen, sizes, wb, rows,
                   filterVars, loopVars>>

\* ---------------------------------------------------------- __filter_news
Range(s) == {s[i] : i \in 1..Len(s)}

\* The working set of requested categories.
ParseCategories(s) == {Lower(c) : c \in Range(Split(s, ","))}

\* FirstMatch without lower-casing the label text.
FirstMatch_CaseSensitive(ls, cats) ==
    LET hits == {i \in 1..Len(ls) : ls[i] \in cats}
    IN  IF hits = {} THEN 0 ELSE CHOOSE i \in hits : \A j \in hits : i <= j
\* The for loop over the labels: the first label whose lower-cased text is
\* in the working set, 0 when there is none.
FirstMatch(ls, cats) ==
    LET hits == {i \in 1..Len(ls) : Lower(ls[i]) \in cats}
    IN  IF hits = {} THEN 0 ELSE CHOOSE i \in hits : \A j \in hits : i <= j

\* Lines 303-311: the sort order is selected (sort_by is always "Newest"
\* here), then the working set and the loop flag are set.
FilterBegin ==
    /\ pc = "filter"
    /\ categories' = ParseCategories(self_categories)
    /\ found' = TRUE
    /\ pc' = "filter_loop"
    /\ UNCHANGED <<gaveUp, call, files, inbox, collectorVars, clock, browserVars, wb, rows,
                   scans, panelOpens, checkClicks, loopVars>>

\* One iteration of the while loop: open the panel, scan the labels.
FilterScan ==
    /\ pc = "filter_loop"
    /\ found /\ Cardinality(categories) # 0
    /\ panelOpens' = panelOpens + 1
    /\ scans' = scans + 1
    /\ LET m == FirstMatch(labels, categories)
       IN  IF m = 0
           THEN /\ found' = FALSE
                /\ UNCHANGED <<categories, checkClicks>>
           ELSE /\ checkClicks' = Append(checkClicks, m)
                /\ found' = TRUE
                /\ categories' = categories \ {Lower(labels[m])}
    /\ UNCHANGED <<gaveUp, call, files, inbox, pc, collectorVars, clock, browserVars, wb, rows, loopVars>>

FilterExit ==
    /\ pc = "filter_loop"
    /\ ~(found /\ Cardinality(categories) # 0)
    /\ pc' = "get_news"
    /\ UNCHANGED <<gaveUp, call, files, inbox, collectorVars, clock, browserVars, wb, rows,
                   filterVars, loopVars>>

\* ------------------------------------------------------------- News
\* What one lookup of an element meets: it succeeds, or it raises
\* NoSuchElementException or StaleElementReferenceException.
LookupKinds == {"ok", "not_found", "stale"}

\* What the successive lookups of one primitive meet, one entry per attempt.
LookupScripts == [1..NEWS_ATTEMPTS -> LookupKinds]

\* The script of `fails` failed lookups followed by successful ones.
FailsThenOk(fails) ==
    [i \in 1..NEWS_ATTEMPTS |-> IF i <= fails THEN "not_found" ELSE "ok"]

RECURSIVE TextLoop_NoReset(_, _, _, _, _)
\* TextLoop without the assignment of the empty string in the handler.
TextLoop_NoReset(outs, read, attempts, tries, field) ==
    IF attempts = 0
    THEN [value |-> field, tries |-> tries, raised |-> FALSE]
    ELSE LET o == OutcomeAt(outs, tries + 1)
         IN  CASE o = "ok" ->
                    [value |-> read, tries |-> tries + 1, raised |-> FALSE]
               [] o \in {"not_found", "stale"} ->
                    TextLoop_NoReset(outs, read, attempts - 1, tries + 1, field)
               [] OTHER ->
                    [value |-> field, tries |-> tries + 1, raised |-> TRUE]
RECURSIVE TextLoop(_, _, _, _, _)
\* The while loop of __get_title, __get_date and __get_description with
\* `attempts` attempts left after `tries` lookups: a lookup that succeeds
\* sets the field to the value read and breaks; NoSuchElementException and
\* StaleElementReferenceException are caught, cost an attempt and set the
\* field to the empty string; any other exception leaves the primitive.
TextLoop(outs, read, attempts, tries, field) ==
    IF attempts = 0
    THEN [value |-> field, tries |-> tries, raised |-> FALSE]
    ELSE LET o == OutcomeAt(outs, tries + 1)
         IN  CASE o = "ok" ->
                    [value |-> read, tries |-> tries + 1, raised |-> FALSE]
               [] o \in {"not_found", "stale"} ->
                    TextLoop(outs, read, attempts - 1, tries + 1, Empty)
               [] OTHER ->
                    [value |-> field, tries |-> tries + 1, raised |-> TRUE]

\* News.__get_title on an element whose title reads `text`.
ReadTitle(outs, text) == TextLoop(outs, text, NEWS_ATTEMPTS, 0, Unset)

\* News.__get_date on an element whose timestamp lies in month m.
ReadDate(outs, m) == TextLoop(outs, <<m>>, NEWS_ATTEMPTS, 0, Unset)

\* News.__get_description on an element whose description reads `text`.
ReadDescription(outs, text) == TextLoop(outs, text, NEWS_ATTEMPTS, 0, Unset)

\* hashlib.sha1(pic_bytes).hexdigest() + ".png": a name fixed by the bytes,
\* different for different images.
PictureName(bytes) == <<bytes[1] * (MaxItems + 1) + bytes[2]>>

RECURSIVE PictureLoop_RetryNotFound(_, _, _, _, _)
\* PictureLoop with NoSuchElementException handled like staleness.
PictureLoop_RetryNotFound(outs, bytes, attempts, tries, field) ==
    IF attempts = 0
    THEN [value |-> field, tries |-> tries, raised |-> FALSE, written |-> {}]
    ELSE LET o == OutcomeAt(outs, tries + 1)
         IN  CASE o = "ok" ->
                    [value |-> PictureName(bytes), tries |-> tries + 1,
                     raised |-> FALSE, written |-> {PictureName(bytes)}]
               [] o \in {"not_found", "stale"} ->
                    PictureLoop_RetryNotFound(outs, bytes, attempts - 1,
                                              tries + 1, Empty)
               [] OTHER ->
                    [value |-> field, tries |-> tries + 1, raised |-> TRUE,
                     written |-> {}]
RECURSIVE PictureLoop(_, _, _, _, _)
\* The while loop of __get_picture: an attempt that finds the image and
\* takes its screenshot writes the file, sets the field to its name and
\* breaks; NoSuchElementException sets the field to the empty string and
\* breaks; StaleElementReferenceException costs an attempt and sets the
\* field to the empty string.
PictureLoop(outs, bytes, attempts, tries, field) ==
    IF attempts = 0
    THEN [value |-> field, tries |-> tries, raised |-> FALSE, written |-> {}]
    ELSE LET o == OutcomeAt(outs, tries + 1)
         IN  CASE o = "ok" ->
                    [value |-> PictureName(bytes), tries |-> tries + 1,
                     raised |-> FALSE, written |-> {PictureName(bytes)}]
               [] o = "not_found" ->
                    [value |-> Empty, tries |-> tries + 1,
                     raised |-> FALSE, written |-> {}]
               [] o = "stale" ->
                    PictureLoop(outs, bytes, attempts - 1, tries + 1, Empty)
               [] OTHER ->
                    [value |-> field, tries |-> tries + 1, raised |-> TRUE,
                     written |-> {}]

\* News.__get_picture on an element whose image has the given bytes.
ReadPicture(outs, bytes) == PictureLoop(outs, bytes, NEWS_ATTEMPTS, 0, Unset)

\* News.__get_date on an element whose timestamp lookup fails `fails` times
\* before it succeeds: the date of month m, or the empty string once the
\* attempts are used up.
GetDate(fails, m) == ReadDate(FailsThenOk(fails), m).value

\* Calendar.time_difference_in_months(news.date, self.__now), self.__now being
\* the session start.
MonthsDiff(date) == NowMonth - date[1]

\* What __get_date leaves in the date field, over the elements whose
\* timestamp lookup fails FailCounts times and whose month is in ItemMonths.
DateChoices == {GetDate(fails, m) : fails \in FailCounts, m \in ItemMonths}

\* The script of an element whose every lookup succeeds.
FoundAtOnce == FailsThenOk(0)

\* News.__init__ on the element at <<p, i>> whose title, description and
\* image are found at the first lookup and whose date field becomes `date`:
\* the News built and the picture files written on the way.
BuildNews(p, i, date) ==
    LET pic == ReadPicture(FoundAtOnce, Article(p, i))
    IN  [news |-> [title |-> ReadTitle(FoundAtOnce, Article(p, i)).value,
                   date |-> date,
                   description |->
                       ReadDescription(FoundAtOnce, Article(p, i)).value,
                   picture |-> pic.value],
         written |-> pic.written]

\* ------------------------------------------------------------- __get_news
\* StopScan without the test of the deadline.
StopScan_BudgetOnly(clk, faults) == faults = 0
\* StopScan without the test of the fault budget.
StopScan_DeadlineOnly(clk, faults) == clk >= self_timeout
\* Line 337: the check made before each element.
StopScan(clk, faults) == clk >= self_timeout \/ faults = 0

\* ItemOutcome without the empty-date test.
ItemOutcome_SaveUndated(date, faults) ==
    IF date # NoDate /\ MonthsDiff(date) > self_months
    THEN [save |-> FALSE, faults |-> faults - 1]
    ELSE [save |-> TRUE, faults |-> FAULTS_TOLERANCE]
\* ItemOutcome with >= for > in the cutoff test.
ItemOutcome_StrictCutoff(date, faults) ==
    IF date = NoDate THEN [save |-> FALSE, faults |-> faults - 1]
    ELSE IF MonthsDiff(date) >= self_months
    THEN [save |-> FALSE, faults |-> faults - 1]
    ELSE [save |-> TRUE, faults |-> FAULTS_TOLERANCE]
\* ItemOutcome without the reset of line 359.
ItemOutcome_NoReset(date, faults) ==
    IF date = NoDate THEN [save |-> FALSE, faults |-> faults - 1]
    ELSE IF MonthsDiff(date) > self_months
    THEN [save |-> FALSE, faults |-> faults - 1]
    ELSE [save |-> TRUE, faults |-> faults]
\* Lines 343-359: what the loop does with an extracted item, given the fault
\* budget before it: whether it is saved, and the budget after it.
ItemOutcome(date, faults) ==
    IF date = NoDate THEN [save |-> FALSE, faults |-> faults - 1]
    ELSE IF MonthsDiff(date) > self_months
    THEN [save |-> FALSE, faults |-> faults - 1]
    ELSE [save |-> TRUE, faults |-> FAULTS_TOLERANCE]

\* The text of div.Pagination-pageCounts.
IndicatorText(cur, tot) == ToStr(cur) \o <<" of ">> \o ToStr(tot)

\* Lines 361-365: split the indicator and compare its two parts.
HasNextPage(text) ==
    LET parts == Split(text, " of ")
    IN  StrLess(parts[1], parts[2])

GetNewsBegin ==
    /\ pc = "get_news"
    /\ remaining_faults' = FAULTS_TOLERANCE
    /\ pc' = "gn_while"
    /\ UNCHANGED <<gaveUp, call, files, inbox, collectorVars, clock, browserVars, wb, rows,
                   filterVars, elems, idx, news, nextClicks, clickFails, misses, exit>>

\* The while test holds: list the elements of the page displayed.
GetNewsFetch ==
    /\ pc = "gn_while"
    /\ remaining_faults > 0
    /\ IF page <= Len(sizes)
       THEN /\ elems' = sizes[page]
            /\ UNCHANGED sizes
       ELSE \E n \in 0..MaxItems :
              /\ elems' = n
              /\ sizes' = Append(sizes, n)
    /\ idx' = 1
    /\ pc' = "gn_for"
    /\ UNCHANGED <<gaveUp, call, files, inbox, collectorVars, clock, browserOpen, labels, page,
                   total, wb, rows, filterVars, remaining_faults, news,
                   nextClicks, clickFails, misses, exit>>

\* The while test fails: __get_news falls off its end.
GetNewsLoopExit ==
    /\ pc = "gn_while"
    /\ ~(remaining_faults > 0)
    /\ exit' = "while"
    /\ pc' = "save"
    /\ UNCHANGED <<gaveUp, call, files, inbox, collectorVars, clock, browserVars, wb, rows,
                   filterVars, remaining_faults, elems, idx, news, nextClicks,
                   clickFails, misses>>

\* The for loop has run through the page's elements.
ForExhausted ==
    /\ pc = "gn_for"
    /\ idx > elems
    /\ pc' = "gn_page"
    /\ UNCHANGED <<gaveUp, call, files, inbox, collectorVars, clock, browserVars, wb, rows,
                   filterVars, loopVars>>

\* Line 338: return in the middle of the page.
ForStop ==
    /\ pc = "gn_for"
    /\ idx <= elems
    /\ StopScan(clock, remaining_faults)
    /\ exit' = "stop"
    /\ pc' = "save"
    /\ UNCHANGED <<gaveUp, call, files, inbox, collectorVars, clock, browserVars, wb, rows,
                   filterVars, remaining_faults, elems, idx, news, nextClicks,
                   clickFails, misses>>

\* Lines 340-359: extract one element and keep or skip it.  Waiting for the
\* element and building the News takes a tick.
ForItem ==
    /\ pc = "gn_for"
    /\ idx <= elems
    /\ ~StopScan(clock, remaining_faults)
    /\ \E date \in DateChoices :
         \E built \in {BuildNews(page, idx, date)} :
           \E out \in {ItemOutcome(built.news.date, remaining_faults)} :
             /\ news' = built.news
             /\ files' = files \cup built.written
             /\ rows' = IF out.save
                        THEN Append(rows, DataRow(Article(page, idx),
                                                  built.news.picture))
                        ELSE rows
             /\ misses' = IF \/ built.news.date = NoDate
                             \/ MonthsDiff(built.news.date) > self_months
                          THEN misses + 1
                          ELSE misses
             /\ remaining_faults' = out.faults
    /\ idx' = idx + 1
    /\ clock' = IF clock < MaxClock THEN clock + 1 ELSE clock
    /\ UNCHANGED <<gaveUp, call, inbox, pc, collectorVars, browserVars, wb,
                   filterVars, elems, nextClicks, clickFails, exit>>

\* Lines 361-366: the indicator shows a next page; the click either takes
\* effect or gives up and leaves the page displayed.
NextPage ==
    /\ pc = "gn_page"
    /\ HasNextPage(IndicatorText(page, total))
    /\ nextClicks' = nextClicks + 1
    /\ \/ /\ page' = page + 1
          /\ UNCHANGED clickFails
       \/ /\ clickFails < MaxClickFails
          /\ clickFails' = clickFails + 1
          /\ UNCHANGED page
    /\ pc' = "gn_while"
    /\ UNCHANGED <<gaveUp, call, files, inbox, collectorVars, clock, browserOpen, labels, total,
                   sizes, wb, rows, filterVars, remaining_faults, elems, idx,
                   news, misses, exit>>

\* Lines 367-368.
NoMorePages ==
    /\ pc = "gn_page"
    /\ ~HasNextPage(IndicatorText(page, total))
    /\ exit' = "no_more_pages"
    /\ pc' = "save"
    /\ UNCHANGED <<gaveUp, call, files, inbox, collectorVars, clock, browserVars, wb, rows,
                   filterVars, remaining_faults, elems, idx, news, nextClicks,
                   clickFails, misses>>

SaveWorkbook ==
    /\ pc = "save"
    /\ wb' = "saved"
    /\ pc' = "done"
    /\ UNCHANGED <<gaveUp, call, files, inbox, collectorVars, clock, browserVars, rows,
                   filterVars, loopVars>>

\* Time passes while the loop runs, besides the time extractions take.
Tick ==
    /\ pc \in {"gn_while", "gn_for", "gn_page"}
    /\ clock < MaxClock
    /\ clock' = clock + 1
    /\ UNCHANGED <<gaveUp, call, files, inbox, pc, collectorVars, browserVars, wb, rows,
                   filterVars, loopVars>>

Next ==
    \/ TaskReturn
    \/ TaskConstruct
    \/ CreateWorkbook
    \/ OpenWebsite
    \/ SearchNews
    \/ FilterBegin
    \/ FilterScan
    \/ FilterExit
    \/ GetNewsBegin
    \/ GetNewsFetch
    \/ GetNewsLoopExit
    \/ ForExhausted
    \/ ForStop
    \/ ForItem
    \/ NextPage
    \/ NoMorePages
    \/ SaveWorkbook
    \/ Tick

Spec == Init /\ [][Next]_vars

\* ------------------------------------------- __filter_news on its own
\* The states in which __filter_news is entered, for every categories input
\* of up to MaxCatLen characters and every list of up to MaxLabels labels.
InitFilter ==
    /\ inbox = <<>>
    /\ pc = "filter"
    /\ self_search_phrase = "economy"
    /\ self_categories \in SeqsUpTo(CatChars, MaxCatLen)
    /\ self_months = 0 /\ self_timeout = TimeoutTicks
    /\ clock = 0
    /\ browserOpen = TRUE
    /\ labels \in SeqsUpTo(LabelTexts \cup {<<"a">>}, MaxLabels)
    /\ page = 1 /\ total = 1 /\ sizes = <<>>
    /\ wb = "open" /\ rows = <<Header>>
    /\ categories = {} /\ found = FALSE /\ scans = 0
    /\ panelOpens = 0 /\ checkClicks = <<>>
    /\ remaining_faults = 0 /\ elems = 0 /\ idx = 0
    /\ news = NoNews /\ files = {} /\ call = NoCall /\ gaveUp = {}
    /\ nextClicks = 0 /\ clickFails = 0 /\ misses = 0 /\ exit = "none"

NextFilter ==
    \/ FilterBegin
    \/ FilterScan
    \/ FilterExit

SpecFilter == InitFilter /\ [][NextFilter]_vars

\* ------------------------------------------------ News.__init__ on its own
\* The state in which __get_news builds the News of the first element of the
\* first page: line 341.
InitNews ==
    /\ inbox = <<>>
    /\ pc = "n_title"
    /\ self_search_phrase = "economy" /\ self_categories = <<>>
    /\ self_months = 0 /\ self_timeout = TimeoutTicks
    /\ clock = 0
    /\ browserOpen = TRUE /\ labels = <<>>
    /\ page = 1 /\ total = 1 /\ sizes = <<1>>
    /\ wb = "open" /\ rows = <<Header>>
    /\ categories = {<<>>} /\ found = FALSE /\ scans = 1
    /\ panelOpens = 1 /\ checkClicks = <<>>
    /\ remaining_faults = FAULTS_TOLERANCE /\ elems = 1 /\ idx = 1
    /\ news = NoNews /\ files = {} /\ call = NoCall /\ gaveUp = {}
    /\ nextClicks = 0 /\ clickFails = 0 /\ misses = 0 /\ exit = "none"

\* What the primitives of News leave alone.
newsFrame == <<gaveUp, inbox, collectorVars, clock, browserVars, wb, rows, filterVars,
               remaining_faults, elems, idx, nextClicks, clickFails, misses,
               exit>>

\* The record of a primitive's run: its name, what its lookups met, what a
\* successful lookup reads, and what the loop did.
Ran(fn, outs, read, r) ==
    [fn |-> fn, outs |-> outs, read |-> read, tries |-> r.tries,
     raised |-> r.raised, log |-> <<>>, returns |-> "None"]

NewsGetTitle ==
    /\ pc = "n_title"
    /\ \E outs \in LookupScripts :
         \E r \in {ReadTitle(outs, Article(page, idx))} :
             /\ news' = [news EXCEPT !.title = r.value]
             /\ call' = Ran("title", outs, Article(page, idx), r)
             /\ pc' = IF r.raised THEN "raised" ELSE "n_date"
    /\ UNCHANGED <<newsFrame, files>>

NewsGetDate ==
    /\ pc = "n_date"
    /\ \E outs \in LookupScripts, m \in ItemMonths :
         \E r \in {ReadDate(outs, m)} :
             /\ news' = [news EXCEPT !.date = r.value]
             /\ call' = Ran("date", outs, <<m>>, r)
             /\ pc' = IF r.raised THEN "raised" ELSE "n_description"
    /\ UNCHANGED <<newsFrame, files>>

NewsGetDescription ==
    /\ pc = "n_description"
    /\ \E outs \in LookupScripts :
         \E r \in {ReadDescription(outs, Article(page, idx))} :
             /\ news' = [news EXCEPT !.description = r.value]
             /\ call' = Ran("description", outs, Article(page, idx), r)
             /\ pc' = IF r.raised THEN "raised" ELSE "n_picture"
    /\ UNCHANGED <<newsFrame, files>>

NewsGetPicture ==
    /\ pc = "n_picture"
    /\ \E outs \in LookupScripts :
         \E r \in {ReadPicture(outs, Article(page, idx))} :
             /\ news' = [news EXCEPT !.picture = r.value]
             /\ files' = files \cup r.written
             /\ call' = Ran("picture", outs, Article(page, idx), r)
             /\ pc' = IF r.raised THEN "raised" ELSE "n_built"
    /\ UNCHANGED newsFrame

NextNews ==
    \/ NewsGetTitle
    \/ NewsGetDate
    \/ NewsGetDescription
    \/ NewsGetPicture

SpecNews == InitNews /\ [][NextNews]_vars

\* --------------------------------------- __get_news with time advancing
\* The states in which collect_news calls __get_news (line 203) after a
\* search with the empty categories input.
InitLive ==
    /\ inbox = <<>>
    /\ pc = "get_news"
    /\ self_search_phrase = "economy" /\ self_categories = <<>>
    /\ self_months \in {NormMonths(m) : m \in 0..MaxMonthsIn}
    /\ self_timeout = TimeoutTicks
    /\ clock = 0
    /\ browserOpen = TRUE /\ labels \in SiteLabels
    /\ page = 1 /\ total \in Totals /\ sizes = <<>>
    /\ wb = "open" /\ rows = <<Header>>
    /\ categories = {} /\ found = TRUE /\ scans = 1
    /\ panelOpens = 1 /\ checkClicks = <<1>>
    /\ remaining_faults = 0 /\ elems = 0 /\ idx = 0
    /\ news = NoNews /\ files = {} /\ call = NoCall /\ gaveUp = {}
    /\ nextClicks = 0 /\ clickFails = 0 /\ misses = 0 /\ exit = "none"

\* Lines 361-366 once more: a next-page click that gives up after
\* MaxClickFails earlier ones did.  The two counters of clicks stay at the
\* values they have reached.
NextPageAgain ==
    /\ pc = "gn_page"
    /\ HasNextPage(IndicatorText(page, total))
    /\ clickFails = MaxClickFails
    /\ pc' = "gn_while"
    /\ UNCHANGED <<gaveUp, call, files, inbox, collectorVars, clock,
                   browserVars, wb, rows, filterVars, loopVars>>

\* The steps of the program; the passing of time is Tick.
StepLive ==
    \/ GetNewsBegin
    \/ GetNewsFetch
    \/ GetNewsLoopExit
    \/ ForExhausted
    \/ ForStop
    \/ ForItem
    \/ NextPage
    \/ NextPageAgain
    \/ NoMorePages
    \/ SaveWorkbook

NextLive ==
    \/ StepLive
    \/ Tick

\* The control flow is sequential and every call blocks, so the program
\* takes its next step whenever it has one; time keeps advancing.
SpecLive == InitLive /\ [][NextLive]_vars /\ WF_vars(StepLive) /\ WF_vars(Tick)

\* ------------------------- the resilient steps of the orchestrator, one by one
\* The state in which collect_news calls __search_news (line 201), for a
\* collector built with the empty categories input, on a site that shows no
\* category checkbox.
InitActions ==
    /\ inbox = <<>>
    /\ pc = "s_click"
    /\ self_search_phrase = "economy" /\ self_categories = <<>>
    /\ self_months = 0 /\ self_timeout = TimeoutTicks
    /\ clock = 0
    /\ browserOpen = TRUE /\ labels = <<>>
    /\ page = 0 /\ total = 0 /\ sizes = <<>>
    /\ wb = "open" /\ rows = <<Header>>
    /\ categories = {} /\ found = FALSE /\ scans = 0
    /\ panelOpens = 0 /\ checkClicks = <<>>
    /\ remaining_faults = 0 /\ elems = 0 /\ idx = 0
    /\ news = NoNews /\ files = {} /\ call = NoCall /\ gaveUp = {}
    /\ nextClicks = 0 /\ clickFails = 0 /\ misses = 0 /\ exit = "none"

\* AfterAction with the caller stopping when the action gave up.
AfterAction_StopOnGiveUp(next, r) ==
    IF r.raised \/ ~r.ok THEN "raised" ELSE next
\* Where the caller of a resilient action goes when the action is over: on
\* to its next statement, unless an exception left the action.
AfterAction(next, r) == IF r.raised THEN "raised" ELSE next

\* The record of a resilient action's run, and the steps that gave up.
Acted(step, outs, r) ==
    [fn |-> step, outs |-> outs, read |-> Empty, tries |-> r.tries,
     raised |-> r.raised, log |-> r.log, returns |-> r.returns]
GaveUp(step, r) == IF r.ok THEN gaveUp ELSE gaveUp \cup {step}

\* What the search steps leave alone.
searchFrame == <<inbox, collectorVars, clock, browserVars, wb, rows,
                 filterVars, loopVars, files>>

\* Line 294.
SearchClickButton ==
    /\ pc = "s_click"
    /\ \E outs \in ActionScripts :
         \E r \in {SecureClickElement(outs)} :
             /\ call' = Acted("s_click", outs, r)
             /\ gaveUp' = GaveUp("s_click", r)
             /\ pc' = AfterAction("s_input", r)
    /\ UNCHANGED searchFrame

\* Lines 295-298.
SearchInputText ==
    /\ pc = "s_input"
    /\ \E outs \in ActionScripts :
         \E r \in {SecureInputText(outs)} :
             /\ call' = Acted("s_input", outs, r)
             /\ gaveUp' = GaveUp("s_input", r)
             /\ pc' = AfterAction("s_submit", r)
    /\ UNCHANGED searchFrame

\* Line 299; __search_news returns and collect_news calls __filter_news.
SearchSubmit ==
    /\ pc = "s_submit"
    /\ \E outs \in ActionScripts :
         \E r \in {SecureClickElement(outs)} :
             /\ call' = Acted("s_submit", outs, r)
             /\ gaveUp' = GaveUp("s_submit", r)
             /\ pc' = AfterAction("f_sort", r)
    /\ UNCHANGED searchFrame

\* Lines 302-310: select the sort order, then set the working set and the
\* loop flag.
FilterSort ==
    /\ pc = "f_sort"
    /\ \E outs \in ActionScripts :
         \E r \in {SecureSelectFromListByLabel(outs)} :
             /\ call' = Acted("f_sort", outs, r)
             /\ gaveUp' = GaveUp("f_sort", r)
             /\ pc' = AfterAction("f_panel", r)
    /\ categories' = ParseCategories(self_categories)
    /\ found' = TRUE
    /\ UNCHANGED <<inbox, collectorVars, clock, browserVars, wb, rows,
                   scans, panelOpens, checkClicks, loopVars, files>>

\* Lines 312-327: an iteration of the while loop: click the heading of the
\* filter panel, scan the labels; the loop ends after a scan without a match
\* or on an empty working set, and collect_news calls __get_news.
FilterPanel ==
    /\ pc = "f_panel"
    /\ found /\ Cardinality(categories) # 0
    /\ panelOpens' = panelOpens + 1
    /\ scans' = scans + 1
    /\ LET m == FirstMatch(labels, categories)
       IN  /\ IF m = 0
              THEN /\ found' = FALSE
                   /\ UNCHANGED <<categories, checkClicks>>
              ELSE /\ checkClicks' = Append(checkClicks, m)
                   /\ found' = TRUE
                   /\ categories' = categories \ {Lower(labels[m])}
           /\ \E outs \in ActionScripts :
                \E r \in {SecureClickElement(outs)} :
                    /\ call' = Acted("f_panel", outs, r)
                    /\ gaveUp' = GaveUp("f_panel", r)
                    /\ pc' = AfterAction(
                                IF found' /\ Cardinality(categories') # 0
                                THEN "f_panel" ELSE "get_news", r)
    /\ UNCHANGED <<inbox, collectorVars, clock, browserVars, wb, rows,
                   loopVars, files>>

NextActions ==
    \/ SearchClickButton
    \/ SearchInputText
    \/ SearchSubmit
    \/ FilterSort
    \/ FilterPanel

SpecActions == InitActions /\ [][NextActions]_vars

\* ---------------------------------------------------------------- claims
LoopPcs == {"gn_while", "gn_for", "gn_page"}
AfterLoopPcs == {"save", "done"}
ReturnedPcs == {"returned_keyerror", "returned_nophrase"}

\* The step in which the for loop extracts and handles the element at idx.
ItemStep == pc = "gn_for" /\ idx' = idx + 1

\* The row save_elements appends for the element at idx of the page shown.
ItemRow == DataRow(Article(page, idx), PictureName(Article(page, idx)))

\* C1: an extracted item whose date is empty appends no row and leaves the
\* fault budget exactly one below its value before the item.
C1_EmptyDateSkipped ==
    [][(ItemStep /\ news'.date = NoDate)
         => (rows' = rows /\ remaining_faults' = remaining_faults - 1)]_vars

\* An item with an empty date has just been handled on this page.
C1_Witness ==
    /\ pc = "gn_for" /\ idx > 1
    /\ news.date = NoDate
    /\ remaining_faults = FAULTS_TOLERANCE - 1
    /\ Len(rows) = 1

\* C2: an extracted item with a non-empty date whose month difference exceeds
\* the cutoff appends no row and costs one fault; any other dated item appends
\* exactly one row, its own, and sets the fault budget to FAULTS_TOLERANCE.
C2_DatedItemHandled ==
    [][(ItemStep /\ news'.date # NoDate)
         => IF MonthsDiff(news'.date) > self_months
            THEN rows' = rows /\ remaining_faults' = remaining_faults - 1
            ELSE /\ rows' = Append(rows, ItemRow)
                 /\ remaining_faults' = FAULTS_TOLERANCE]_vars

\* The third item of the first page was saved after two misses ones: the
\* budget is back at its constant from 3.
C2_Witness ==
    /\ pc = "gn_for" /\ page = 1 /\ idx = 4 /\ clickFails = 0
    /\ news.date # NoDate
    /\ rows = <<Header, DataRow(<<1, 3>>, PictureName(<<1, 3>>))>>
    /\ misses = 2
    /\ remaining_faults = FAULTS_TOLERANCE

\* C3: at the end of a page the loop goes on to the next page exactly when
\* the current page number is numerically less than the total.
C3_AdvanceIffNumericallyLess ==
    [][(pc = "gn_page" /\ pc' # pc)
         => ((pc' = "gn_while") <=> (page < total))]_vars

\* Every page listed so far has an item that was saved.
EveryPageQualified ==
    \A p \in 1..Len(sizes) : \E i \in 1..Len(rows) : rows[i].item[1] = p

\* C4: when every page has a qualifying item, the loop has stopped only with
\* the fault budget at 0, the deadline reached, or current >= total.
C4_StopsOnlyWhen ==
    (pc \in AfterLoopPcs /\ EveryPageQualified)
        => \/ remaining_faults = 0
           \/ clock >= self_timeout
           \/ page >= total

\* C5: once the fault budget is zero no further element is listed or
\* extracted and no further row is appended.
C5_HaltsAtZeroBudget ==
    [][(pc \in LoopPcs \cup AfterLoopPcs /\ remaining_faults = 0)
         => /\ rows' = rows
            /\ idx' = idx /\ elems' = elems /\ sizes' = sizes
            /\ news' = news
            /\ remaining_faults' = 0]_vars

\* The budget reached zero on the last element of a page with a next page:
\* the run ended at the while test.
C5_Witness ==
    pc = "done" /\ exit = "while" /\ remaining_faults = 0

\* The rows of the end-to-end scenario: the header and the five items.
ScenarioRows ==
    <<Header>> \o [i \in 1..3 |-> DataRow(<<1, i>>, PictureName(<<1, i>>))]
               \o [i \in 1..2 |-> DataRow(<<2, i>>, PictureName(<<2, i>>))]

IsPrefix(a, b) == Len(a) <= Len(b) /\ \A i \in 1..Len(a) : a[i] = b[i]

\* The run so far is one of the scenario: phrase "economy", categories "",
\* cutoff of months=1, two pages of 3 and 2 items, every item dated and
\* within the cutoff, every next-page click taking effect, the deadline not
\* reached.
InScenario ==
    /\ self_search_phrase = "economy"
    /\ self_categories = <<>>
    /\ self_months = 0
    /\ total = 2
    /\ IsPrefix(sizes, <<3, 2>>)
    /\ misses = 0 /\ clickFails = 0
    /\ clock < self_timeout

\* C6: the scenario ends with the header and exactly five data rows, by the
\* no-more-pages return.
C6_EndToEnd ==
    (InScenario /\ pc \in AfterLoopPcs)
        => (rows = ScenarioRows /\ exit = "no_more_pages")

C6_Witness ==
    InScenario /\ pc = "done" /\ wb = "saved" /\ Len(rows) = 6

\* The requested categories, and how often a label of category c was clicked.
Requested == ParseCategories(self_categories)
Shown(c) == \E i \in 1..Len(labels) : Lower(labels[i]) = c
Clicks(c) ==
    Cardinality({j \in 1..Len(checkClicks) : Lower(labels[checkClicks[j]]) = c})
FilterDone == pc \in {"get_news"} \cup LoopPcs \cup AfterLoopPcs

\* C7: labels match case-insensitively; a requested category shown on the
\* page is clicked once and leaves the pending set, one not shown is never
\* clicked and stays pending; only requested labels are clicked; the loop
\* makes at most (number of requested categories + 1) scans.
C7_FilterMatchesOnce ==
    /\ scans <= Cardinality(Requested) + 1
    /\ \A j \in 1..Len(checkClicks) : Lower(labels[checkClicks[j]]) \in Requested
    /\ \A c \in Requested : Clicks(c) <= 1
    /\ FilterDone =>
         \A c \in Requested :
            IF Shown(c) THEN Clicks(c) = 1 /\ c \notin categories
                        ELSE Clicks(c) = 0 /\ c \in categories

\* Two categories requested in other case than shown, one never shown.
C7_Witness ==
    /\ FilterDone
    /\ self_categories = <<"a", ",", "B">>
    /\ labels = << <<"b">>, <<"A">> >>
    /\ checkClicks = <<1, 2>>
    /\ categories = {}

\* C8: with the empty categories input the filter panel is never opened and
\* no checkbox is clicked.
C8_NoFilterWhenEmpty ==
    self_categories = <<>> => (panelOpens = 0 /\ checkClicks = <<>>)

\* The cutoff the claim gives for a requested number of months.
ExpectedCutoff(n) == IF n <= 1 THEN 0 ELSE n - 1

\* C9: the cutoff is fixed at construction, 0 for months 0 and 1 and n-1 for
\* n >= 1, never changes, and a dated item is saved iff its month difference
\* is at most the cutoff.
C9_CutoffNormalised ==
    [][/\ (pc = "task" /\ pc' = "collect")
            => self_months' =
                 ExpectedCutoff(GetWorkItemVariable(inbox[1].months, 0))
       /\ pc # "task" => self_months' = self_months
       /\ (ItemStep /\ news'.date # NoDate)
            => ((rows' = Append(rows, ItemRow))
                  <=> (MonthsDiff(news'.date) <= self_months))
       /\ (ItemStep /\ news'.date # NoDate)
            => (rows' = rows \/ rows' = Append(rows, ItemRow))]_vars

\* With months = 2 an item one month old has been saved.
C9_Witness ==
    /\ pc = "gn_for" /\ idx > 1
    /\ self_months = 1
    /\ news.date = <<NowMonth - 1>>
    /\ rows[Len(rows)].item = <<page, idx - 1>>

\* A work item that makes the task give up.
BadInput(wi) == wi.err \/ wi.search_phrase \in {<<>>, <<"">>}

NothingBuilt ==
    /\ self_search_phrase = "" /\ self_timeout = 0
    /\ ~browserOpen /\ wb = "none" /\ rows = <<>>

\* C10: on a missing or empty search phrase, or a KeyError, the task returns
\* normally with no collector, browser, workbook or row, and does nothing
\* afterwards.
C10_BadInputAborts ==
    [][/\ (pc = "task" /\ BadInput(inbox[1]))
            => (pc' \in ReturnedPcs /\ NothingBuilt')
       /\ pc \in ReturnedPcs => vars' = vars]_vars

C10_Witness == pc = "returned_nophrase" /\ NothingBuilt

\* The first lookup of a script with one of the given outcomes, 0 when there
\* is none.
FirstOf(outs, kinds) ==
    LET hits == {i \in 1..Len(outs) : outs[i] \in kinds}
    IN  IF hits = {} THEN 0 ELSE CHOOSE i \in hits : \A j \in hits : i <= j

TextPrimitives == {"title", "date", "description"}

\* C11: a text primitive ends without raising after at most NEWS_ATTEMPTS
\* lookups; when every lookup fails it made NEWS_ATTEMPTS of them and the
\* field is empty; when lookup k is the first to succeed it made k of them
\* and the field is the value read.
C11_TextRetry ==
    call.fn \in TextPrimitives =>
        LET k == FirstOf(call.outs, {"ok"})
        IN  /\ ~call.raised /\ pc # "raised"
            /\ call.tries <= NEWS_ATTEMPTS
            /\ k = 0 => (call.tries = NEWS_ATTEMPTS /\ news[call.fn] = Empty)
            /\ k > 0 => (call.tries = k /\ news[call.fn] = call.read)

\* The timestamp was read at the fifth lookup, after failures of both kinds.
C11_Witness ==
    /\ call.fn = "date"
    /\ call.outs = <<"stale", "not_found", "stale", "not_found", "ok">>
    /\ call.tries = NEWS_ATTEMPTS
    /\ news.date = <<NowMonth>>

\* C12: in __get_picture the first lookup that is not stale ends the
\* primitive: not found leaves the picture empty and no file, success leaves
\* the picture name and its file; after NEWS_ATTEMPTS stale lookups the
\* picture is empty and no file was written.
C12_PictureRetry ==
    call.fn = "picture" =>
        LET e == FirstOf(call.outs, {"ok", "not_found"})
        IN  /\ ~call.raised /\ pc # "raised"
            /\ call.tries = (IF e = 0 THEN NEWS_ATTEMPTS ELSE e)
            /\ IF e > 0 /\ call.outs[e] = "ok"
               THEN /\ news.picture = PictureName(call.read)
                    /\ files = {PictureName(call.read)}
               ELSE news.picture = Empty /\ files = {}

\* Two stale lookups, then the image is not found although later lookups
\* would find it.
C12_Witness ==
    /\ call.fn = "picture"
    /\ call.outs = <<"stale", "stale", "not_found", "ok", "ok">>
    /\ call.tries = 3
    /\ news.picture = Empty /\ files = {}

ActionSteps == {"s_click", "s_input", "s_submit", "f_sort", "f_panel"}

\* The attempts among the first j entries of the last action's log.
AttemptsUpTo(j) == Cardinality({i \in 1..j : call.log[i] = "attempt"})

\* C13: a resilient action makes min(first success, ATTEMPTS) attempts,
\* whatever the kinds of its failures; __check_modals runs once right after
\* each intercepted attempt and at no other time.
C13_ResilientAction ==
    call.fn \in ActionSteps =>
        LET k == FirstOf(call.outs, {"ok"})
        IN  /\ call.tries <= ATTEMPTS
            /\ call.tries = (IF k = 0 THEN ATTEMPTS ELSE k)
            /\ AttemptsUpTo(Len(call.log)) = call.tries
            /\ \A j \in 1..Len(call.log) :
                  call.log[j] = "check_modals"
                    => /\ j > 1 /\ call.log[j - 1] = "attempt"
                       /\ call.outs[AttemptsUpTo(j)] = "intercepted"
            /\ \A i \in 1..call.tries :
                  call.outs[i] = "intercepted"
                    => \E j \in 1..Len(call.log) :
                          call.log[j] = "check_modals" /\ AttemptsUpTo(j) = i

\* The text was typed at the fifth attempt, after failures of every kind.
C13_Witness ==
    /\ call.fn = "s_input"
    /\ call.outs = <<"intercepted", "stale", "intercepted", "not_found", "ok">>
    /\ call.log = <<"attempt", "check_modals", "attempt", "attempt",
                    "check_modals", "attempt", "attempt">>

\* The statement that follows each resilient step of the orchestrator.
StepAfter(step) ==
    CASE step = "s_click" -> "s_input"
      [] step = "s_input" -> "s_submit"
      [] step = "s_submit" -> "f_sort"
      [] step = "f_sort" -> "f_panel"
      [] step = "f_panel" -> "get_news"

\* C14: a resilient action that used up its attempts returns None without an
\* exception, and the orchestrator goes on to the same next step as after a
\* success.
C14_GiveUpGoesOn ==
    [][(pc \in ActionSteps)
         => /\ ~call'.raised /\ call'.returns = "None"
            /\ pc' = StepAfter(pc)
            /\ (pc \in gaveUp') <=> (FirstOf(call'.outs, {"ok"}) = 0)]_vars

\* Collection is reached although none of the five actions took effect.
C14_Witness ==
    pc = "get_news" /\ gaveUp = ActionSteps /\ call.tries = ATTEMPTS

\* C15: an element is extracted only when the clock is before the deadline
\* at its check; a check that finds the deadline reached leaves the loop at
\* once, in the middle of the page, and neither the pagination indicator nor
\* the next-page click is reached afterwards.
C15_DeadlineBeforeEachElement ==
    [][/\ ItemStep => clock < self_timeout
       /\ (pc = "gn_for" /\ idx <= elems /\ clock >= self_timeout /\ pc' # pc)
            => /\ pc' = "save" /\ exit' = "stop"
               /\ idx' = idx /\ rows' = rows /\ nextClicks' = nextClicks
       /\ exit = "stop"
            => (pc' \in AfterLoopPcs /\ nextClicks' = nextClicks)]_vars

\* The deadline was met in the middle of a page that has a next page, with
\* fault budget left.
C15_Witness ==
    /\ pc = "done" /\ exit = "stop"
    /\ clock >= self_timeout /\ remaining_faults > 0
    /\ 1 < idx /\ idx <= elems
    /\ page < total /\ HasNextPage(IndicatorText(page, total))

\* C16: once the deadline has passed the collection loop is left.
C16_DoneAfterDeadline ==
    (pc \in LoopPcs /\ clock >= self_timeout) ~> (pc \in AfterLoopPcs)

LoopExits == {"stop", "while", "no_more_pages"}

\* C17: the workbook is created and the header appended before the browser
\* is opened; every later row is the row of the element being enumerated,
\* appended at the end; the workbook is saved once, when __get_news has
\* returned, and nothing is appended afterwards.
C17_WorkbookOrder ==
    [][/\ (browserOpen' /\ ~browserOpen) => (wb = "open" /\ rows = <<Header>>)
       /\ (wb' # wb /\ wb' = "open") => (wb = "none" /\ ~browserOpen)
       /\ rows' # rows
            => \/ /\ wb = "none" /\ ~browserOpen
                  /\ rows = <<>> /\ rows' = <<Header>>
               \/ /\ ItemStep /\ wb = "open"
                  /\ rows' = Append(rows, ItemRow)
       /\ pc = "save"
            => /\ exit \in LoopExits /\ wb = "open"
               /\ wb' = "saved" /\ rows' = rows /\ pc' = "done"
       /\ (wb' # wb /\ wb' = "saved") => pc = "save"
       /\ wb = "saved" => vars' = vars]_vars

\* A run that skipped the first item, saved one item on each of two pages,
\* met the deadline and saved the workbook.
C17_Witness ==
    /\ pc = "done" /\ wb = "saved" /\ exit = "stop"
    /\ Len(rows) = 3 /\ rows[1] = Header
    /\ rows[2].item = <<1, 2>> /\ rows[3].item = <<2, 1>>

\* C18: while the fault budget is zero the loop neither reads the pagination
\* indicator nor triggers a next-page click.
C18_NoPagingAtZeroBudget ==
    [][(pc \in LoopPcs /\ remaining_faults = 0)
         => /\ nextClicks' = nextClicks
            /\ pc = "gn_page" => pc' = pc]_vars

\* C19: no article is the item of two data rows.
C19_NoDuplicateRows ==
    \A i, j \in 1..Len(rows) : i < j => rows[i].item # rows[j].item

\* C20: every picture file written is named in the picture column of a row.
C20_NoOrphanPicture ==
    \A f \in files : \E i \in 1..Len(rows) : rows[i].picture = f

====
